---- MODULE Spec2Model ----
(***************************************************************************)
(* Storage-management core of Rusty-File-System: the free-object bitmaps   *)
(* (src/src/fs/bitmap.rs), the metadata counters (src/src/fs/metadata.rs)  *)
(* and the allocate/free orchestration of FSState (src/src/fs/state.rs).   *)
(*                                                                         *)
(* A bitmap is the set of the indices of its set bits, within its STORAGE  *)
(* of 8 * N bits for a BitArray<[u8; N]>: bit idx reads `idx \in map`.     *)
(* Indexing a BitArray at or past its storage panics; this is outcome      *)
(* "Panic" below, and a panicked FSState takes no further calls.           *)
(* The metadata's mtime and wtime are part of the state; a successful      *)
(* counter update stamps mtime with a read of the clock, which is an input *)
(* of the call.  An inode's mtime_secs is left out of the state.           *)
(***************************************************************************)
EXTENDS Integers, FiniteSets, Sequences, TLC

\* ------------------------------------------------------------------------
\* Program constants
\* ------------------------------------------------------------------------
FS_SIZE_BYTES == 1073741824
BLK_SIZE_BYTES == 4096
RESERVED_DATA_BLKS == 3
NUM_DATA_BLKS == FS_SIZE_BYTES \div BLK_SIZE_BYTES
MAX_NUM_INODES == 10
RESERVED_INODES == 2
FREE_BLK_BMAP_SIZE_BYTES == NUM_DATA_BLKS \div BLK_SIZE_BYTES
FREE_INODE_BMAP_SIZE_BYTES == (MAX_NUM_INODES + 7) \div 8
NUM_INO_DIRECT_PTR == 12
INVALID_PTR == 0

\* A u32 is held as the 32-bit pattern read as a signed number: values below
\* 2^31 are themselves, and 2^32 - k is -k.  u32::MAX is therefore -1, and
\* the unsigned order puts every negative representative above every
\* non-negative one.
U32_MAX == 0 - 1
U32Lt(a, b) == IF (a < 0) = (b < 0) THEN a < b ELSE b < 0
U32Ge(a, b) == ~U32Lt(a, b)
\* The representatives run from I32_MIN (the u32 2^31) to I32_MAX (2^31 - 1).
I32_MAX == (FS_SIZE_BYTES - 1) + FS_SIZE_BYTES
I32_MIN == (0 - I32_MAX) - 1
\* Wrapping a - 1 and a + 1 on the representatives: the u32 2^31 - 1 and 2^31
\* are neighbours, and so are u32::MAX and 0.
U32WrapDec(a) == IF a = I32_MIN THEN I32_MAX ELSE a - 1
U32WrapInc(a) == IF a = I32_MAX THEN I32_MIN ELSE a + 1
\* An id far beyond both bitmaps' storage and both tables.
FAR_ID == FS_SIZE_BYTES

\* Bits a BitArray<[u8; N], Lsb0> stores.
BitsOf(nbytes) == 8 * nbytes
InoBits == BitsOf(FREE_INODE_BMAP_SIZE_BYTES)
BlkBits == BitsOf(FREE_BLK_BMAP_SIZE_BYTES)

\* Length of the block table (state.rs declares its own NUM_DATA_BLKS).
BLKS_LEN == 262144

\* ------------------------------------------------------------------------
\* Bounds of the exploration
\* ------------------------------------------------------------------------
\* Spec (inode and block calls interleaved) allocates a block only while
\* fewer than MaxLiveBlks blocks are live; SpecBlk has no such cap.
MaxLiveBlks == 3
\* SpecMeta follows free_ino_count at most MaxWrap steps below zero (that
\* is, below u32::MAX after the wrap) and free_blk_count within MaxWalk of
\* either end of its range.
MaxWrap == 3
MaxWalk == 3
\* Spec, SpecKinds and SpecRead allocate an inode only while fewer than
\* MaxLiveInos bits of the allocatable range are set; SpecIno has no such
\* cap.
MaxLiveInos == 3
\* The clock reads a second of 0..MaxClock, each read on its own: second 0
\* is the epoch (and a clock before it), and two stamps of one run can
\* differ.
MaxClock == 1

\* The boxed slice `blks` is held as two variables: blks_len, its length,
\* and blks, the blocks of its occupied slots.  No call changes the length.
\* dent is the DirEntry the caller holds (the last one DirEntry::new built),
\* dir the dir_entries of a Directory; the FSState calls touch neither.
VARIABLES metadata, inode_bitmap, inodes, blk_bitmap, blks, blks_len, ret,
          dent, dir

vars == <<metadata, inode_bitmap, inodes, blk_bitmap, blks, blks_len, ret,
          dent, dir>>

\* ------------------------------------------------------------------------
\* bitmap.rs
\* ------------------------------------------------------------------------
\* map[idx] and map.set(idx, value), for idx within the storage.
Bit(map, idx) == idx \in map
BitSet(map, idx, value) == IF value THEN map \cup {idx} ELSE map \ {idx}

None == [tag |-> "None", idx |-> 0]
Some(i) == [tag |-> "Some", idx |-> i]
PanicIdx == [tag |-> "Panic", idx |-> 0]

\* The smallest element of a non-empty set of indices.
MinIdx(S) == CHOOSE i \in S : \A j \in S : i <= j
MaxIdx(S) == CHOOSE i \in S : \A j \in S : j <= i

\* The indices `for idx in RESERVED..MAX` can read: those within the storage.
Readable(RESERVED, MAX, nbits) ==
    RESERVED..((IF MAX < nbits THEN MAX ELSE nbits) - 1)

find_first_free_highest(map, RESERVED, MAX, nbits) ==
    LET free == Readable(RESERVED, MAX, nbits) \ map
    IN  IF free # {} THEN Some(MaxIdx(free))
        ELSE IF MAX > nbits THEN PanicIdx
        ELSE None

find_first_free_skip_last(map, RESERVED, MAX, nbits) ==
    LET free == Readable(RESERVED, MAX - 1, nbits) \ map
    IN  IF free # {} THEN Some(MinIdx(free))
        ELSE IF MAX > nbits THEN PanicIdx
        ELSE None

\* The loop returns at the first clear bit it reads; with every readable
\* bit set it runs on to MAX, and reading map[nbits] panics when the
\* storage ends before MAX.
find_first_free(map, RESERVED, MAX, nbits) ==
    LET free == Readable(RESERVED, MAX, nbits) \ map
    IN  IF free # {} THEN Some(MinIdx(free))
        ELSE IF MAX > nbits THEN PanicIdx
        ELSE None

\* Result of a bitmap flip: the error kind (or "Ok", or "Panic") and the map.
BmRes(res, map) == [res |-> res, map |-> map]

set_alloc_off_by_one(map, idx, RESERVED, MAX, nbits) ==
    IF idx < RESERVED \/ idx > MAX THEN BmRes("RestrictedEntry", map)
    ELSE IF idx >= nbits THEN BmRes("Panic", map)
    ELSE IF Bit(map, idx) = TRUE THEN BmRes("AlreadyAlloced", map)
    ELSE BmRes("Ok", BitSet(map, idx, TRUE))

set_alloc(map, idx, RESERVED, MAX, nbits) ==
    IF idx < RESERVED \/ idx >= MAX THEN BmRes("RestrictedEntry", map)
    ELSE IF idx >= nbits THEN BmRes("Panic", map)
    ELSE IF Bit(map, idx) = TRUE THEN BmRes("AlreadyAlloced", map)
    ELSE BmRes("Ok", BitSet(map, idx, TRUE))

set_free_no_reserved(map, idx, RESERVED, MAX, nbits) ==
    IF idx >= MAX THEN BmRes("RestrictedEntry", map)
    ELSE IF idx >= nbits THEN BmRes("Panic", map)
    ELSE IF Bit(map, idx) = FALSE THEN BmRes("AlreadyFree", map)
    ELSE BmRes("Ok", BitSet(map, idx, FALSE))

set_free_no_check(map, idx, RESERVED, MAX, nbits) ==
    IF idx < RESERVED \/ idx >= MAX THEN BmRes("RestrictedEntry", map)
    ELSE IF idx >= nbits THEN BmRes("Panic", map)
    ELSE BmRes("Ok", BitSet(map, idx, FALSE))

set_free_clears_pair(map, idx, RESERVED, MAX, nbits) ==
    IF idx < RESERVED \/ idx >= MAX THEN BmRes("RestrictedEntry", map)
    ELSE IF idx >= nbits THEN BmRes("Panic", map)
    ELSE IF Bit(map, idx) = FALSE THEN BmRes("AlreadyFree", map)
    ELSE BmRes("Ok", map \ {idx, idx + 1})

set_free(map, idx, RESERVED, MAX, nbits) ==
    IF idx < RESERVED \/ idx >= MAX THEN BmRes("RestrictedEntry", map)
    ELSE IF idx >= nbits THEN BmRes("Panic", map)
    ELSE IF Bit(map, idx) = FALSE THEN BmRes("AlreadyFree", map)
    ELSE BmRes("Ok", BitSet(map, idx, FALSE))

\* BitArray::default() with map[0..RESERVED].fill(true).
DefaultBitmap(nbits, RESERVED) == {i \in 0..(nbits - 1) : i < RESERVED}
FreeInodeBitmapDefault == DefaultBitmap(InoBits, RESERVED_INODES)
FreeBlockBitmapDefault == DefaultBitmap(BlkBits, RESERVED_DATA_BLKS)

\* ------------------------------------------------------------------------
\* metadata.rs
\* ------------------------------------------------------------------------
FSMetadataDefault ==
    [ino_count |-> MAX_NUM_INODES,
     blk_count |-> NUM_DATA_BLKS,
     free_blk_count |-> NUM_DATA_BLKS - RESERVED_DATA_BLKS,
     free_ino_count |-> MAX_NUM_INODES - RESERVED_INODES,
     super_blk_no |-> 0,
     mtime |-> 0,
     wtime |-> 0]

\* secs_from_unix_epoch() as u64: the values a read of the clock returns,
\* 0 with the clock at or before the epoch (`unwrap_or(0)`), otherwise the
\* second it reads.  The counter updates take the reading as `now`.
secs_from_unix_epoch == 0..MaxClock

MdRes(res, md) == [res |-> res, md |-> md]

\* The outcomes of dec_free_ino_count, `now` being what the clock reads.
\* The guard `free_ino_count < 0` is never true of a u32, so at 0 the
\* subtraction overflows: a panic in a build with overflow checks, a wrap to
\* 2^32 - 1 in one without.  Every successful update stamps mtime.
dec_free_ino_count_noop(md, now) == {MdRes("Ok", [md EXCEPT !.mtime = now])}

dec_free_ino_count(md, now) ==
    IF U32Lt(md.free_ino_count, 0) THEN {MdRes("InoCountBelowReserved", md)}
    ELSE IF md.free_ino_count = 0
         THEN {MdRes("Panic", md),
               MdRes("Ok", [md EXCEPT !.free_ino_count = U32WrapDec(@),
                                      !.mtime = now])}
         ELSE {MdRes("Ok", [md EXCEPT !.free_ino_count = U32WrapDec(@),
                                      !.mtime = now])}

inc_free_ino_count_stamps_wtime(md, now) ==
    IF U32Ge(md.free_ino_count, MAX_NUM_INODES - RESERVED_INODES)
    THEN MdRes("InoCountExceedingMax", md)
    ELSE MdRes("Ok", [md EXCEPT !.free_ino_count = U32WrapInc(@),
                                !.wtime = now])

inc_free_ino_count(md, now) ==
    IF U32Ge(md.free_ino_count, MAX_NUM_INODES - RESERVED_INODES)
    THEN MdRes("InoCountExceedingMax", md)
    ELSE MdRes("Ok", [md EXCEPT !.free_ino_count = U32WrapInc(@),
                                !.mtime = now])

dec_free_blk_count_by_two(md, now) ==
    IF U32Lt(0, md.free_blk_count)
    THEN MdRes("Ok", [md EXCEPT !.free_blk_count = U32WrapDec(U32WrapDec(@)),
                                !.mtime = now])
    ELSE MdRes("BlkCountBelowReserved", md)

dec_free_blk_count(md, now) ==
    IF U32Lt(0, md.free_blk_count)
    THEN MdRes("Ok", [md EXCEPT !.free_blk_count = U32WrapDec(@),
                                !.mtime = now])
    ELSE MdRes("BlkCountBelowReserved", md)

inc_free_blk_count_le(md, now) ==
    IF md.free_blk_count <= NUM_DATA_BLKS - RESERVED_DATA_BLKS
    THEN MdRes("Ok", [md EXCEPT !.free_blk_count = U32WrapInc(@),
                                !.mtime = now])
    ELSE MdRes("BlkCountExceedingMax", md)

inc_free_blk_count(md, now) ==
    IF U32Lt(md.free_blk_count, NUM_DATA_BLKS - RESERVED_DATA_BLKS)
    THEN MdRes("Ok", [md EXCEPT !.free_blk_count = U32WrapInc(@),
                                !.mtime = now])
    ELSE MdRes("BlkCountExceedingMax", md)

\* ------------------------------------------------------------------------
\* inode.rs
\* ------------------------------------------------------------------------
NoInode == [tag |-> "None"]

InodeNew_next_id(ino_id, kind, perm) ==
    [tag |-> "Some",
     ino_id |-> ino_id + 1,
     size |-> 0,
     blocks |-> 0,
     kind |-> kind,
     perm |-> perm,
     direct_blks |-> [i \in 1..NUM_INO_DIRECT_PTR |-> INVALID_PTR],
     indirect_blk |-> INVALID_PTR,
     dbl_indirect_blk |-> INVALID_PTR,
     tri_indirect_blk |-> INVALID_PTR]

InodeNew_perm_dropped(ino_id, kind, perm) ==
    [tag |-> "Some",
     ino_id |-> ino_id,
     size |-> 0,
     blocks |-> 0,
     kind |-> kind,
     perm |-> 0,
     direct_blks |-> [i \in 1..NUM_INO_DIRECT_PTR |-> INVALID_PTR],
     indirect_blk |-> INVALID_PTR,
     dbl_indirect_blk |-> INVALID_PTR,
     tri_indirect_blk |-> INVALID_PTR]

InodeNew(ino_id, kind, perm) ==
    [tag |-> "Some",
     ino_id |-> ino_id,
     size |-> 0,
     blocks |-> 0,
     kind |-> kind,
     perm |-> perm,
     direct_blks |-> [i \in 1..NUM_INO_DIRECT_PTR |-> INVALID_PTR],
     indirect_blk |-> INVALID_PTR,
     dbl_indirect_blk |-> INVALID_PTR,
     tri_indirect_blk |-> INVALID_PTR]

\* inode.rs: create_root_ino
ROOT_INO == 1
ROOT_INO_PERM == 493
create_root_ino == InodeNew(ROOT_INO, "Directory", ROOT_INO_PERM)

\* ------------------------------------------------------------------------
\* directory.rs
\* ------------------------------------------------------------------------
MAX_FILENAME_LEN == 255
\* size_of::<DirEntry>(): the u32 ino_id, the u8 name_len and the
\* MAX_FILENAME_LEN bytes of name, rounded up to the alignment of the u32.
U32_SIZE == 4
U8_SIZE == 1
DirEntrySize ==
    ((U32_SIZE + U8_SIZE + MAX_FILENAME_LEN + U32_SIZE - 1) \div U32_SIZE) * U32_SIZE
DIR_SIZE_LEN == BLK_SIZE_BYTES \div DirEntrySize

\* A name is the sequence of its bytes (name.as_bytes()); Option<DirEntry>
\* is NoEntry or a record tagged "Some".
NoEntry == [tag |-> "None"]
DirRes(res, entry) == [res |-> res, entry |-> entry]

\* `len as u8`
AsU8(n) == n % 256

DirEntry_new_len_wraps(ino_id, name) ==
    IF Len(name) = 0 THEN DirRes("NameEmpty", NoEntry)
    ELSE IF Len(name) > MAX_FILENAME_LEN THEN DirRes("NameTooLong", NoEntry)
    ELSE DirRes("Ok", [tag |-> "Some",
                       ino_id |-> ino_id,
                       name_len |-> Len(name) % MAX_FILENAME_LEN,
                       name |-> [i \in 1..MAX_FILENAME_LEN |->
                                    IF i <= Len(name) THEN name[i] ELSE 0]])

\* DirEntry::new
DirEntry_new(ino_id, name) ==
    IF Len(name) = 0 THEN DirRes("NameEmpty", NoEntry)
    ELSE IF Len(name) > MAX_FILENAME_LEN THEN DirRes("NameTooLong", NoEntry)
    ELSE DirRes("Ok", [tag |-> "Some",
                       ino_id |-> ino_id,
                       name_len |-> AsU8(Len(name)),
                       name |-> [i \in 1..MAX_FILENAME_LEN |->
                                    IF i <= Len(name) THEN name[i] ELSE 0]])

\* std::str::from_utf8: a byte below 0x80 stands alone; a lead byte
\* 0xC2..0xDF, 0xE0..0xEF or 0xF0..0xF4 takes one, two or three continuation
\* bytes 0x80..0xBF, the first of them narrowed after 0xE0, 0xED, 0xF0 and
\* 0xF4 (no overlong forms, no surrogates, nothing above U+10FFFF).
IsCont(b) == b >= 128 /\ b <= 191
Utf8Width(b) ==
    IF b < 128 THEN 1
    ELSE IF b >= 194 /\ b <= 223 THEN 2
    ELSE IF b >= 224 /\ b <= 239 THEN 3
    ELSE IF b >= 240 /\ b <= 244 THEN 4
    ELSE 0
Utf8Second(lead, b) ==
    IF lead = 224 THEN b >= 160 /\ b <= 191
    ELSE IF lead = 237 THEN b >= 128 /\ b <= 159
    ELSE IF lead = 240 THEN b >= 144 /\ b <= 191
    ELSE IF lead = 244 THEN b >= 128 /\ b <= 143
    ELSE IsCont(b)
\* Every byte that is not a continuation byte starts a character, which is
\* complete and is followed by the start of the next one.
Utf8Valid(bytes) ==
    /\ Len(bytes) > 0 => ~IsCont(bytes[1])
    /\ \A i \in 1..Len(bytes) :
          ~IsCont(bytes[i])
          => LET n == Utf8Width(bytes[i])
             IN  /\ n > 0
                 /\ i + n - 1 <= Len(bytes)
                 /\ n > 1 => Utf8Second(bytes[i], bytes[i + 1])
                 /\ \A k \in 2..(n - 1) : IsCont(bytes[i + k])
                 /\ i + n <= Len(bytes) => ~IsCont(bytes[i + n])

\* DirEntry::name_str
name_str(entry) ==
    LET bytes == SubSeq(entry.name, 1, entry.name_len)
    IN  IF Utf8Valid(bytes) THEN [res |-> "Ok", val |-> bytes]
        ELSE [res |-> "InvalidUtf8", val |-> <<>>]

\* impl Default for Directory
DirectoryDefault == [i \in 1..DIR_SIZE_LEN |-> NoEntry]

\* Directory::set_entries: the error of an over-long array is NameTooLong
\* ("Reusing error for now").
set_entries(d, entries) ==
    IF Len(entries) > DIR_SIZE_LEN THEN [res |-> "NameTooLong", dir |-> d]
    ELSE [res |-> "Ok", dir |-> entries]

\* new_dir_with_entries: Directory::default, then set_entries on it; the
\* directory is returned only when set_entries accepted the array.
new_dir_with_entries(entries) == set_entries(DirectoryDefault, entries)

\* Directory::add_entry: the body is empty.
add_entry(d, entry) == d

DirInit ==
    /\ dent = NoEntry
    /\ dir = DirectoryDefault

\* ------------------------------------------------------------------------
\* state.rs
\* ------------------------------------------------------------------------
\* Block { data: [0u8; BLK_SIZE_BYTES] }: a block is the byte that fills it.
ZeroBlock == [fill |-> 0]

BlkSlotSet_keeps_stale(tbl, idx, blk) ==
    [i \in (DOMAIN tbl) \cup {idx} |-> IF i \in DOMAIN tbl THEN tbl[i] ELSE blk]

\* A boxed slice of Option<Block>: its length and the blocks of its Some
\* slots.
BlkTable(len, slots) == [len |-> len, slots |-> slots]

\* blks holds Some(block) exactly at the indices of its domain.
BlkSlotSet(tbl, idx, blk) ==
    [i \in (DOMAIN tbl) \cup {idx} |-> IF i = idx THEN blk ELSE tbl[i]]
BlkSlotClear_keeps(tbl, idx) == tbl

BlkSlotClear(tbl, idx) ==
    [i \in (DOMAIN tbl) \ {idx} |-> tbl[i]]

\* What a call returned: the call, its argument, Ok / the error kind /
\* Panic, and the id an allocation returned.
Ret(op, arg, res, val) == [op |-> op, arg |-> arg, res |-> res, val |-> val]

Panicked == ret.res = "Panic"

\* impl Default for FSState
FSStateDefault ==
    /\ metadata = FSMetadataDefault
    /\ inode_bitmap = FreeInodeBitmapDefault
    /\ inodes = [i \in 0..(MAX_NUM_INODES - 1) |-> NoInode]
    /\ blk_bitmap = FreeBlockBitmapDefault
    /\ blks = <<>>
    /\ blks_len = BLKS_LEN
    /\ ret = Ret("default", 0, "Ok", 0)

Init == FSStateDefault /\ DirInit

alloc_inode(kind, perm) ==
    /\ ~Panicked
    /\ UNCHANGED <<dent, dir, blks_len>>
    /\ LET ff == find_first_free(inode_bitmap, RESERVED_INODES, MAX_NUM_INODES, InoBits)
       IN
       IF ff.tag = "None"
       THEN /\ ret' = Ret("alloc_inode", 0, "NoFreeInodesOnAlloc", 0)
            /\ UNCHANGED <<metadata, inode_bitmap, inodes, blk_bitmap, blks>>
       ELSE IF ff.tag = "Panic"
       THEN /\ ret' = Ret("alloc_inode", 0, "Panic", 0)
            /\ UNCHANGED <<metadata, inode_bitmap, inodes, blk_bitmap, blks>>
       ELSE
       LET idx == ff.idx
           sa == set_alloc(inode_bitmap, idx, RESERVED_INODES, MAX_NUM_INODES, InoBits)
       IN
       IF sa.res # "Ok"
       THEN /\ ret' = Ret("alloc_inode", 0,
                          IF sa.res = "Panic" THEN "Panic" ELSE "NoFreeInodesOnAlloc", 0)
            /\ UNCHANGED <<metadata, inode_bitmap, inodes, blk_bitmap, blks>>
       ELSE
       \E now \in secs_from_unix_epoch : \E dec \in dec_free_ino_count(metadata, now) :
          /\ inode_bitmap' = sa.map
          /\ metadata' = dec.md
          /\ IF dec.res = "Ok"
             THEN IF idx \in DOMAIN inodes
                  THEN /\ inodes' = [inodes EXCEPT ![idx] = InodeNew(idx, kind, perm)]
                       /\ ret' = Ret("alloc_inode", 0, "Ok", idx)
                  ELSE /\ inodes' = inodes
                       /\ ret' = Ret("alloc_inode", 0, "Panic", 0)
             ELSE /\ inodes' = inodes
                  /\ ret' = Ret("alloc_inode", 0,
                                IF dec.res = "Panic" THEN "Panic"
                                ELSE "NoFreeInodesOnAlloc", 0)
          /\ UNCHANGED <<blk_bitmap, blks>>

free_inode(ino_id) ==
    /\ ~Panicked
    /\ UNCHANGED <<dent, dir, blks_len>>
    /\ LET idx == ino_id
           sf == set_free(inode_bitmap, idx, RESERVED_INODES, MAX_NUM_INODES, InoBits)
       IN
       IF sf.res # "Ok"
       THEN /\ ret' = Ret("free_inode", ino_id,
                          IF sf.res = "RestrictedEntry" THEN "InvalidInoId"
                          ELSE sf.res, 0)
            /\ UNCHANGED <<metadata, inode_bitmap, inodes, blk_bitmap, blks>>
       ELSE
       \E now \in secs_from_unix_epoch :
       LET inc == inc_free_ino_count(metadata, now)
       IN
       /\ inode_bitmap' = sf.map
       /\ metadata' = inc.md
       /\ IF inc.res = "Ok"
          THEN IF idx \in DOMAIN inodes
               THEN /\ inodes' = [inodes EXCEPT ![idx] = NoInode]
                    /\ ret' = Ret("free_inode", ino_id, "Ok", 0)
               ELSE /\ inodes' = inodes
                    /\ ret' = Ret("free_inode", ino_id, "Panic", 0)
          ELSE /\ inodes' = inodes
               /\ ret' = Ret("free_inode", ino_id, "InvalidInoId", 0)
       /\ UNCHANGED <<blk_bitmap, blks>>

alloc_blk ==
    /\ ~Panicked
    /\ UNCHANGED <<dent, dir, blks_len>>
    /\ LET ff == find_first_free(blk_bitmap, RESERVED_DATA_BLKS, NUM_DATA_BLKS, BlkBits)
       IN
       IF ff.tag = "None"
       THEN /\ ret' = Ret("alloc_blk", 0, "NoFreeEntriesOnAlloc", 0)
            /\ UNCHANGED <<metadata, inode_bitmap, inodes, blk_bitmap, blks>>
       ELSE IF ff.tag = "Panic"
       THEN /\ ret' = Ret("alloc_blk", 0, "Panic", 0)
            /\ UNCHANGED <<metadata, inode_bitmap, inodes, blk_bitmap, blks>>
       ELSE
       LET idx == ff.idx
           sa == set_alloc(blk_bitmap, idx, RESERVED_DATA_BLKS, NUM_DATA_BLKS, BlkBits)
       IN
       IF sa.res # "Ok"
       THEN /\ ret' = Ret("alloc_blk", 0, sa.res, 0)
            /\ UNCHANGED <<metadata, inode_bitmap, inodes, blk_bitmap, blks>>
       ELSE
       \E now \in secs_from_unix_epoch :
       LET dec == dec_free_blk_count(metadata, now)
       IN
       /\ blk_bitmap' = sa.map
       /\ metadata' = dec.md
       /\ IF dec.res = "Ok"
          THEN IF idx < blks_len
               THEN /\ blks' = BlkSlotSet(blks, idx, ZeroBlock)
                    /\ ret' = Ret("alloc_blk", 0, "Ok", idx)
               ELSE /\ blks' = blks
                    /\ ret' = Ret("alloc_blk", 0, "Panic", 0)
          ELSE /\ blks' = blks
               /\ ret' = Ret("alloc_blk", 0, "RestrictedEntry", 0)
       /\ UNCHANGED <<inode_bitmap, inodes>>

free_blk(blk_id) ==
    /\ ~Panicked
    /\ UNCHANGED <<dent, dir, blks_len>>
    /\ LET idx == blk_id
           sf == set_free(blk_bitmap, idx, RESERVED_DATA_BLKS, NUM_DATA_BLKS, BlkBits)
       IN
       IF sf.res # "Ok"
       THEN /\ ret' = Ret("free_blk", blk_id, sf.res, 0)
            /\ UNCHANGED <<metadata, inode_bitmap, inodes, blk_bitmap, blks>>
       ELSE
       \E now \in secs_from_unix_epoch :
       LET inc == inc_free_blk_count(metadata, now)
       IN
       /\ blk_bitmap' = sf.map
       /\ metadata' = inc.md
       /\ IF inc.res = "Ok"
          THEN IF idx < blks_len
               THEN /\ blks' = BlkSlotClear(blks, idx)
                    /\ ret' = Ret("free_blk", blk_id, "Ok", 0)
               ELSE /\ blks' = blks
                    /\ ret' = Ret("free_blk", blk_id, "Panic", 0)
          ELSE /\ blks' = blks
               /\ ret' = Ret("free_blk", blk_id, "RestrictedEntry", 0)
       /\ UNCHANGED <<inode_bitmap, inodes>>

\* get_ino_ref: `self.inodes[ino_id as usize]` panics at or past the length
\* of the table; a slot holding None gives InodeNotFound.
GetInoRes(ino_id) ==
    IF ino_id \notin DOMAIN inodes THEN [res |-> "Panic", val |-> NoInode]
    ELSE IF inodes[ino_id].tag = "Some" THEN [res |-> "Ok", val |-> inodes[ino_id]]
    ELSE [res |-> "InodeNotFound", val |-> NoInode]

get_ino_ref(ino_id) ==
    /\ ~Panicked
    /\ UNCHANGED <<dent, dir, blks_len>>
    /\ LET r == GetInoRes(ino_id)
       IN  ret' = Ret("get_ino_ref", ino_id, r.res, r.val)
    /\ UNCHANGED <<metadata, inode_bitmap, inodes, blk_bitmap, blks>>

get_root_ino_ref ==
    /\ ~Panicked
    /\ UNCHANGED <<dent, dir, blks_len>>
    /\ LET r == GetInoRes(ROOT_INO)
       IN  ret' = Ret("get_root_ino_ref", ROOT_INO, r.res, r.val)
    /\ UNCHANGED <<metadata, inode_bitmap, inodes, blk_bitmap, blks>>

\* read_ino_alloc calls inode_bitmap.is_alloced(idx), which bitmap.rs does
\* not define.  It is taken to be the bounds-checked read that set_alloc and
\* set_free start with: RestrictedEntry outside [RESERVED, MAX), otherwise
\* the value of the bit.
is_alloced(map, idx, RESERVED, MAX, nbits) ==
    IF idx < RESERVED \/ idx >= MAX THEN [res |-> "RestrictedEntry", val |-> FALSE]
    ELSE IF idx >= nbits THEN [res |-> "Panic", val |-> FALSE]
    ELSE [res |-> "Ok", val |-> Bit(map, idx)]

\* read_ino_alloc stores the inode it is given in the slot of its ino_id;
\* it touches neither the bitmap nor the counters.
read_ino_alloc(read_ino) ==
    /\ ~Panicked
    /\ UNCHANGED <<dent, dir, blks_len>>
    /\ LET idx == read_ino.ino_id
           r == is_alloced(inode_bitmap, idx, RESERVED_INODES, MAX_NUM_INODES, InoBits)
       IN
       IF r.res = "Panic"
       THEN /\ ret' = Ret("read_ino_alloc", idx, "Panic", 0)
            /\ inodes' = inodes
       ELSE IF r.res # "Ok"
       THEN /\ ret' = Ret("read_ino_alloc", idx, "RestrictedEntry", 0)
            /\ inodes' = inodes
       ELSE IF r.val
       THEN /\ ret' = Ret("read_ino_alloc", idx, "AlreadyAlloced", 0)
            /\ inodes' = inodes
       ELSE IF idx \notin DOMAIN inodes
       THEN /\ ret' = Ret("read_ino_alloc", idx, "Panic", 0)
            /\ inodes' = inodes
       ELSE /\ inodes' = [inodes EXCEPT ![idx] = read_ino]
            /\ ret' = Ret("read_ino_alloc", idx, "Ok", idx)
    /\ UNCHANGED <<metadata, inode_bitmap, blk_bitmap, blks>>

\* ------------------------------------------------------------------------
\* Inputs and specifications
\* ------------------------------------------------------------------------
Kinds == {"RegularFile", "Directory"}
Perms == {493}
\* Ids handed to free_inode: the reserved ids, every allocatable id, MAX,
\* the first id past the bitmap's storage, and an id far beyond it.
InoIds == (0..MAX_NUM_INODES) \cup {InoBits, FAR_ID}
\* Ids handed to free_blk: reserved ids, the first allocatable ids, the last
\* bit of the storage, the first id past it, and the ids around MAX.
BlkIds == {0, RESERVED_DATA_BLKS - 1, RESERVED_DATA_BLKS, RESERVED_DATA_BLKS + 1,
           BlkBits - 1, BlkBits, NUM_DATA_BLKS - 1, NUM_DATA_BLKS, FAR_ID}

\* The allocatable ranges and the number of their set bits.
InoRange == RESERVED_INODES..(MAX_NUM_INODES - 1)
BlkRange == RESERVED_DATA_BLKS..(NUM_DATA_BLKS - 1)
InoSetBits == Cardinality(inode_bitmap \cap InoRange)
BlkSetBits == Cardinality(blk_bitmap \cap BlkRange)

AllocInode == \E kind \in Kinds, perm \in Perms : alloc_inode(kind, perm)
FreeInode == \E id \in InoIds : free_inode(id)
AllocBlk == alloc_blk
FreeBlk == \E id \in BlkIds : free_blk(id)

\* Inode calls on a fresh filesystem, to exhaustion.
AllocInodeFile == alloc_inode("RegularFile", 493)
NextIno == AllocInodeFile \/ FreeInode
SpecIno == Init /\ [][NextIno]_vars

\* Inodes of both kinds on a fresh filesystem, allocated only while fewer
\* than MaxLiveInos bits of the allocatable range are set.
AllocInodeKinds == InoSetBits < MaxLiveInos /\ AllocInode
NextKinds == AllocInodeKinds \/ FreeInode
SpecKinds == Init /\ [][NextKinds]_vars

\* Block calls on a fresh filesystem, to exhaustion.
NextBlk == AllocBlk \/ FreeBlk
SpecBlk == Init /\ [][NextBlk]_vars

\* Inode and block calls interleaved on a fresh filesystem, with fewer than
\* MaxLiveInos inodes and MaxLiveBlks blocks live before an allocation.
LiveBlks == Cardinality(DOMAIN blks)
AllocInodeCapped == InoSetBits < MaxLiveInos /\ alloc_inode("RegularFile", 493)
AllocBlkCapped == LiveBlks < MaxLiveBlks /\ alloc_blk
Next == AllocInodeCapped \/ FreeInode \/ AllocBlkCapped \/ FreeBlk
Spec == Init /\ [][Next]_vars

\* ------------------------------------------------------------------------
\* The bitmaps on their own: set_alloc, set_free and find_first_free called
\* directly on FreeInodeBitmap and FreeBlockBitmap (what the unit tests of
\* main.rs do), from the default bitmaps.
\* ------------------------------------------------------------------------
ino_set_alloc(idx) ==
    /\ ~Panicked
    /\ UNCHANGED <<dent, dir, blks_len>>
    /\ LET r == set_alloc(inode_bitmap, idx, RESERVED_INODES, MAX_NUM_INODES, InoBits)
       IN  /\ inode_bitmap' = r.map
           /\ ret' = Ret("ino.set_alloc", idx, r.res, 0)
    /\ UNCHANGED <<metadata, inodes, blk_bitmap, blks>>

ino_set_free(idx) ==
    /\ ~Panicked
    /\ UNCHANGED <<dent, dir, blks_len>>
    /\ LET r == set_free(inode_bitmap, idx, RESERVED_INODES, MAX_NUM_INODES, InoBits)
       IN  /\ inode_bitmap' = r.map
           /\ ret' = Ret("ino.set_free", idx, r.res, 0)
    /\ UNCHANGED <<metadata, inodes, blk_bitmap, blks>>

blk_set_alloc(idx) ==
    /\ ~Panicked
    /\ UNCHANGED <<dent, dir, blks_len>>
    /\ LET r == set_alloc(blk_bitmap, idx, RESERVED_DATA_BLKS, NUM_DATA_BLKS, BlkBits)
       IN  /\ blk_bitmap' = r.map
           /\ ret' = Ret("blk.set_alloc", idx, r.res, 0)
    /\ UNCHANGED <<metadata, inodes, inode_bitmap, blks>>

blk_set_free(idx) ==
    /\ ~Panicked
    /\ UNCHANGED <<dent, dir, blks_len>>
    /\ LET r == set_free(blk_bitmap, idx, RESERVED_DATA_BLKS, NUM_DATA_BLKS, BlkBits)
       IN  /\ blk_bitmap' = r.map
           /\ ret' = Ret("blk.set_free", idx, r.res, 0)
    /\ UNCHANGED <<metadata, inodes, inode_bitmap, blks>>

ino_find_first_free ==
    /\ ~Panicked
    /\ UNCHANGED <<dent, dir, blks_len>>
    /\ LET ff == find_first_free(inode_bitmap, RESERVED_INODES, MAX_NUM_INODES, InoBits)
       IN  ret' = Ret("ino.find_first_free", 0,
                      IF ff.tag = "Some" THEN "Ok" ELSE ff.tag, ff.idx)
    /\ UNCHANGED <<metadata, inode_bitmap, inodes, blk_bitmap, blks>>

blk_find_first_free ==
    /\ ~Panicked
    /\ UNCHANGED <<dent, dir, blks_len>>
    /\ LET ff == find_first_free(blk_bitmap, RESERVED_DATA_BLKS, NUM_DATA_BLKS, BlkBits)
       IN  ret' = Ret("blk.find_first_free", 0,
                      IF ff.tag = "Some" THEN "Ok" ELSE ff.tag, ff.idx)
    /\ UNCHANGED <<metadata, inode_bitmap, inodes, blk_bitmap, blks>>

\* Indices handed to the inode bitmap: reserved, allocatable, MAX, MAX + 1,
\* the end of the storage and far beyond it.
InoBitIdx == {0, 1, 2, 3, MAX_NUM_INODES - 1, MAX_NUM_INODES, MAX_NUM_INODES + 1,
              InoBits - 1, InoBits, FAR_ID}
\* Indices handed to the block bitmap.
BlkBitIdx == {0, RESERVED_DATA_BLKS - 1, RESERVED_DATA_BLKS, RESERVED_DATA_BLKS + 1,
              BlkBits - 1, BlkBits, NUM_DATA_BLKS - 1, NUM_DATA_BLKS,
              NUM_DATA_BLKS + 1, FAR_ID}

NextBitmap ==
    \/ \E idx \in InoBitIdx : ino_set_alloc(idx)
    \/ \E idx \in InoBitIdx : ino_set_free(idx)
    \/ \E idx \in BlkBitIdx : blk_set_alloc(idx)
    \/ \E idx \in BlkBitIdx : blk_set_free(idx)
    \/ ino_find_first_free
    \/ blk_find_first_free
SpecBitmap == Init /\ [][NextBitmap]_vars

\* ------------------------------------------------------------------------
\* One allocate/free call on a state built by FSState::new, which takes the
\* five parts as given: the tables agree with the bitmaps, the free
\* counters are whatever the caller loaded.
\* ------------------------------------------------------------------------
NewInoSets == {{}, {2}, {2, 3}, {3, 5}, RESERVED_INODES..(MAX_NUM_INODES - 1)}
NewInoCounts == {0, 1, MAX_NUM_INODES - RESERVED_INODES - 1,
                 MAX_NUM_INODES - RESERVED_INODES}
NewBlkSets == {{}, {3}, RESERVED_DATA_BLKS..(BlkBits - 1)}
NewBlkCounts == {0, 1, NUM_DATA_BLKS - RESERVED_DATA_BLKS - 1,
                 NUM_DATA_BLKS - RESERVED_DATA_BLKS}

FSStateNew(md, ino_map, ino_tbl, blk_map, blk_tbl) ==
    /\ metadata = md
    /\ inode_bitmap = ino_map
    /\ inodes = ino_tbl
    /\ blk_bitmap = blk_map
    /\ blks = blk_tbl.slots
    /\ blks_len = blk_tbl.len
    /\ ret = Ret("new", 0, "Ok", 0)
    /\ DirInit

\* Lengths of the two tables handed to FSState::new: the full length, or a
\* table that ends where the allocatable range begins.
NewInoLens == {MAX_NUM_INODES, RESERVED_INODES}
NewBlkLens == {BLKS_LEN, RESERVED_DATA_BLKS}

InitNew ==
    \E is \in NewInoSets, ic \in NewInoCounts, bs \in NewBlkSets, bc \in NewBlkCounts :
      \E il \in NewInoLens, bl \in NewBlkLens :
        FSStateNew([FSMetadataDefault EXCEPT !.free_ino_count = ic,
                                            !.free_blk_count = bc],
                   FreeInodeBitmapDefault \cup is,
                   [i \in 0..(il - 1) |->
                       IF i \in is THEN InodeNew(i, "RegularFile", 493) ELSE NoInode],
                   FreeBlockBitmapDefault \cup bs,
                   BlkTable(bl, [i \in {b \in bs : b < bl} |-> ZeroBlock]))

FirstCall == ret.op = "new"
NewAllocInode == FirstCall /\ AllocInode
NewFreeInode == FirstCall /\ FreeInode
NewAllocBlk == FirstCall /\ AllocBlk
NewFreeBlk == FirstCall /\ FreeBlk
NextNew == NewAllocInode \/ NewFreeInode \/ NewAllocBlk \/ NewFreeBlk
SpecNew == InitNew /\ [][NextNew]_vars

\* ------------------------------------------------------------------------
\* The four counter methods called directly on an FSMetadata (its fields
\* are public, so the counters start wherever the caller put them).
\* ------------------------------------------------------------------------
md_dec_free_ino_count ==
    /\ ~Panicked
    /\ UNCHANGED <<dent, dir, blks_len>>
    /\ \E now \in secs_from_unix_epoch : \E r \in dec_free_ino_count(metadata, now) :
          /\ metadata' = r.md
          /\ ret' = Ret("dec_free_ino_count", 0, r.res, 0)
    /\ UNCHANGED <<inode_bitmap, inodes, blk_bitmap, blks>>

md_inc_free_ino_count ==
    /\ ~Panicked
    /\ UNCHANGED <<dent, dir, blks_len>>
    /\ \E now \in secs_from_unix_epoch :
       LET r == inc_free_ino_count(metadata, now)
       IN  /\ metadata' = r.md
           /\ ret' = Ret("inc_free_ino_count", 0, r.res, 0)
    /\ UNCHANGED <<inode_bitmap, inodes, blk_bitmap, blks>>

md_dec_free_blk_count ==
    /\ ~Panicked
    /\ UNCHANGED <<dent, dir, blks_len>>
    /\ \E now \in secs_from_unix_epoch :
       LET r == dec_free_blk_count(metadata, now)
       IN  /\ metadata' = r.md
           /\ ret' = Ret("dec_free_blk_count", 0, r.res, 0)
    /\ UNCHANGED <<inode_bitmap, inodes, blk_bitmap, blks>>

md_inc_free_blk_count ==
    /\ ~Panicked
    /\ UNCHANGED <<dent, dir, blks_len>>
    /\ \E now \in secs_from_unix_epoch :
       LET r == inc_free_blk_count(metadata, now)
       IN  /\ metadata' = r.md
           /\ ret' = Ret("inc_free_blk_count", 0, r.res, 0)
    /\ UNCHANGED <<inode_bitmap, inodes, blk_bitmap, blks>>

MetaInoCounts == {0, 1, MAX_NUM_INODES - RESERVED_INODES - 1,
                  MAX_NUM_INODES - RESERVED_INODES}
MetaBlkCounts == {0, 1, NUM_DATA_BLKS - RESERVED_DATA_BLKS - 1,
                  NUM_DATA_BLKS - RESERVED_DATA_BLKS}

InitMeta ==
    \E ic \in MetaInoCounts, bc \in MetaBlkCounts :
        FSStateNew([FSMetadataDefault EXCEPT !.free_ino_count = ic,
                                            !.free_blk_count = bc],
                   FreeInodeBitmapDefault,
                   [i \in 0..(MAX_NUM_INODES - 1) |-> NoInode],
                   FreeBlockBitmapDefault,
                   BlkTable(BLKS_LEN, <<>>))

MaxFreeBlks == NUM_DATA_BLKS - RESERVED_DATA_BLKS
DecInoCount == metadata.free_ino_count > 0 - MaxWrap /\ md_dec_free_ino_count
IncInoCount == md_inc_free_ino_count
DecBlkCount ==
    /\ \/ metadata.free_blk_count <= MaxWalk
       \/ metadata.free_blk_count > MaxFreeBlks - MaxWalk
    /\ md_dec_free_blk_count
IncBlkCount ==
    /\ \/ metadata.free_blk_count < MaxWalk
       \/ metadata.free_blk_count >= MaxFreeBlks - MaxWalk
    /\ md_inc_free_blk_count
NextMeta == DecInoCount \/ IncInoCount \/ DecBlkCount \/ IncBlkCount
SpecMeta == InitMeta /\ [][NextMeta]_vars

\* ------------------------------------------------------------------------
\* Inode lookups between allocations and frees, from FSState::default.
\* ------------------------------------------------------------------------
GetInoRef == \E id \in InoIds : get_ino_ref(id)
GetRootInoRef == get_root_ino_ref
NextLookup == AllocInodeFile \/ FreeInode \/ GetInoRef \/ GetRootInoRef
SpecLookup == Init /\ [][NextLookup]_vars

\* ------------------------------------------------------------------------
\* Frees and block allocations on a filesystem loaded by FSState::new: the
\* first two data blocks may be allocated and written, a free slot of the
\* block table may still hold an old block, and inode 2 may point at
\* allocated blocks.  The counters agree with the bitmaps.
\* ------------------------------------------------------------------------
WrittenBlock == [fill |-> 7]
LoadedBlkIds == RESERVED_DATA_BLKS..(RESERVED_DATA_BLKS + 1)
LoadedIno == RESERVED_INODES

\* The blocks an inode points at: its non-sentinel pointers.
BlksOf(ino) ==
    ({ino.direct_blks[i] : i \in 1..NUM_INO_DIRECT_PTR}
        \cup {ino.indirect_blk, ino.dbl_indirect_blk, ino.tri_indirect_blk})
    \ {INVALID_PTR}

InodeWith(ino_id, direct, indirect) ==
    [InodeNew(ino_id, "RegularFile", 493) EXCEPT
        !.direct_blks[1] = direct,
        !.indirect_blk = indirect,
        !.blocks = Cardinality({direct, indirect} \ {INVALID_PTR})]

LoadedInodes(bs) ==
    {NoInode} \cup {InodeWith(LoadedIno, d, n) :
                       d \in {INVALID_PTR} \cup bs, n \in {INVALID_PTR} \cup bs}

LoadedBlkTables(bs) ==
    {t \in UNION {[dom -> {ZeroBlock, WrittenBlock}] : dom \in SUBSET LoadedBlkIds} :
        /\ bs \subseteq DOMAIN t
        /\ \A i \in (DOMAIN t) \ bs : t[i] = WrittenBlock}

InitLoaded ==
    \E bs \in SUBSET LoadedBlkIds :
      \E ino \in LoadedInodes(bs), tbl \in LoadedBlkTables(bs) :
        LET is == IF ino = NoInode THEN {} ELSE {LoadedIno}
        IN  FSStateNew([FSMetadataDefault EXCEPT
                           !.free_ino_count = @ - Cardinality(is),
                           !.free_blk_count = @ - Cardinality(bs)],
                       FreeInodeBitmapDefault \cup is,
                       [i \in 0..(MAX_NUM_INODES - 1) |->
                           IF i \in is THEN ino ELSE NoInode],
                       FreeBlockBitmapDefault \cup bs,
                       BlkTable(BLKS_LEN, tbl))

NextLoaded == FreeInode \/ AllocBlkCapped \/ FreeBlk
SpecLoaded == InitLoaded /\ [][NextLoaded]_vars

\* ------------------------------------------------------------------------
\* DirEntry::new, name_str and Directory::set_entries.  The caller builds
\* entries with DirEntry::new and hands set_entries the current array,
\* resized or with the entry it holds written into one of the first slots.
\* ------------------------------------------------------------------------
dir_entry_new(ino_id, name) ==
    /\ LET r == DirEntry_new(ino_id, name)
       IN  /\ dent' = IF r.res = "Ok" THEN r.entry ELSE dent
           /\ ret' = Ret("DirEntry::new", [ino_id |-> ino_id, name |-> name], r.res, 0)
    /\ UNCHANGED <<metadata, inode_bitmap, inodes, blk_bitmap, blks, blks_len,
                   dir>>

entry_name_str ==
    /\ dent.tag = "Some"
    /\ LET r == name_str(dent)
       IN  ret' = Ret("name_str", dent, r.res, r.val)
    /\ UNCHANGED <<metadata, inode_bitmap, inodes, blk_bitmap, blks, blks_len,
                   dent, dir>>

dir_set_entries(entries) ==
    /\ LET r == set_entries(dir, entries)
       IN  /\ dir' = r.dir
           /\ ret' = Ret("set_entries", entries, r.res, 0)
    /\ UNCHANGED <<metadata, inode_bitmap, inodes, blk_bitmap, blks, blks_len,
                   dent>>

dir_new_dir_with_entries(entries) ==
    /\ LET r == new_dir_with_entries(entries)
       IN  /\ dir' = IF r.res = "Ok" THEN r.dir ELSE dir
           /\ ret' = Ret("new_dir_with_entries", entries, r.res, 0)
    /\ UNCHANGED <<metadata, inode_bitmap, inodes, blk_bitmap, blks, blks_len,
                   dent>>

dir_add_entry ==
    /\ dent.tag = "Some"
    /\ dir' = add_entry(dir, dent)
    /\ ret' = Ret("add_entry", dent, "Ok", 0)
    /\ UNCHANGED <<metadata, inode_bitmap, inodes, blk_bitmap, blks, blks_len,
                   dent>>

\* Names: empty, "a", a two-byte character, MAX_FILENAME_LEN bytes (ending
\* in a three-byte and in a two-byte character) and one byte more.
Rep(n, b) == [i \in 1..n |-> b]
Names == {<<>>, <<97>>, <<195, 169>>,
          Rep(MAX_FILENAME_LEN - 3, 97) \o <<226, 130, 172>>,
          Rep(MAX_FILENAME_LEN - 2, 97) \o <<195, 169>>,
          Rep(MAX_FILENAME_LEN + 1, 97)}
DirInoIds == {0, RESERVED_INODES}
DirLens == {0, 2, DIR_SIZE_LEN, DIR_SIZE_LEN + 1}
DirSlots == 1..2

Resized(n) == [i \in 1..n |-> IF i <= Len(dir) THEN dir[i] ELSE NoEntry]

NewDirEntry == \E id \in DirInoIds, name \in Names : dir_entry_new(id, name)
NameStr == entry_name_str
SetEntriesResized == \E n \in DirLens : dir_set_entries(Resized(n))
SetEntriesWithEntry ==
    \E j \in DirSlots :
        /\ j <= Len(dir)
        /\ dir_set_entries([dir EXCEPT ![j] = dent])
NewDirWithEntries == \E n \in DirLens : dir_new_dir_with_entries(Resized(n))
AddEntry == dir_add_entry
NextDir ==
    \/ NewDirEntry \/ NameStr \/ SetEntriesResized \/ SetEntriesWithEntry
    \/ NewDirWithEntries \/ AddEntry
SpecDir == Init /\ [][NextDir]_vars

\* ------------------------------------------------------------------------
\* Address translation.  The source declares the pointers of an Inode
\* (inode.rs) and has no function that follows them; the mapping below is
\* the design contract of the specification (section 4.3), computed the way
\* a lookup walks the levels: each level takes what the levels before it
\* left over.
\* ------------------------------------------------------------------------
PTRS_PER_BLK == BLK_SIZE_BYTES \div U32_SIZE

Xlate(level, ptr, off) == [level |-> level, ptr |-> ptr, off |-> off]

translate_direct_incl(ino, L) ==
    IF L <= NUM_INO_DIRECT_PTR
    THEN Xlate("direct", IF L < NUM_INO_DIRECT_PTR THEN ino.direct_blks[L + 1]
                         ELSE INVALID_PTR, 0)
    ELSE Xlate("indirect", ino.indirect_blk, L - NUM_INO_DIRECT_PTR)

translate(ino, L) ==
    IF L < NUM_INO_DIRECT_PTR THEN Xlate("direct", ino.direct_blks[L + 1], 0)
    ELSE
    LET l1 == L - NUM_INO_DIRECT_PTR
    IN  IF l1 < PTRS_PER_BLK THEN Xlate("indirect", ino.indirect_blk, l1)
        ELSE
        LET l2 == l1 - PTRS_PER_BLK
        IN  IF l2 < PTRS_PER_BLK * PTRS_PER_BLK
            THEN Xlate("dbl_indirect", ino.dbl_indirect_blk, l2)
            ELSE
            LET l3 == l2 - PTRS_PER_BLK * PTRS_PER_BLK
            IN  IF l3 < PTRS_PER_BLK * PTRS_PER_BLK * PTRS_PER_BLK
                THEN Xlate("tri_indirect", ino.tri_indirect_blk, l3)
                ELSE Xlate("error", INVALID_PTR, 0)

ino_translate(ino_id, L) ==
    /\ ~Panicked
    /\ UNCHANGED <<dent, dir, blks_len>>
    /\ inodes[ino_id].tag = "Some"
    /\ LET r == translate(inodes[ino_id], L)
       IN  ret' = Ret("translate", L, r.level, r)
    /\ UNCHANGED <<metadata, inode_bitmap, inodes, blk_bitmap, blks>>

\* Logical block indices: the first and last of every level and the first
\* two past the last level.
LevelStarts ==
    {0, NUM_INO_DIRECT_PTR,
     NUM_INO_DIRECT_PTR + PTRS_PER_BLK,
     NUM_INO_DIRECT_PTR + PTRS_PER_BLK + PTRS_PER_BLK * PTRS_PER_BLK,
     NUM_INO_DIRECT_PTR + PTRS_PER_BLK + PTRS_PER_BLK * PTRS_PER_BLK
        + PTRS_PER_BLK * PTRS_PER_BLK * PTRS_PER_BLK}
LogicalBlks == {b + d : b \in LevelStarts, d \in {0 - 1, 0, 1}} \ {0 - 1}

Translate == \E L \in LogicalBlks : ino_translate(LoadedIno, L)
NextXlate == Translate
SpecXlate == InitLoaded /\ [][NextXlate]_vars

\* ------------------------------------------------------------------------
\* Properties
\* ------------------------------------------------------------------------
InoPartUnchanged == UNCHANGED <<inode_bitmap, inodes, metadata>>
BlkPartUnchanged == UNCHANGED <<blk_bitmap, blks, metadata>>
IsErr(r) == r.res \notin {"Ok", "Panic"}

\* ------------------------------------------------------------------------
\* Inodes loaded with read_ino_alloc between allocations, frees and
\* lookups, from FSState::default.
\* ------------------------------------------------------------------------
ReadInoIds == {0, RESERVED_INODES, RESERVED_INODES + 1, MAX_NUM_INODES - 1,
               MAX_NUM_INODES}
ReadInos == {InodeNew(id, "Directory", 493) : id \in ReadInoIds}
ReadInoAlloc == \E ino \in ReadInos : read_ino_alloc(ino)
NextRead == AllocInodeCapped \/ FreeInode \/ ReadInoAlloc \/ GetInoRef
SpecRead == Init /\ [][NextRead]_vars

\* C1: on a fresh filesystem, after any alloc_inode / free_inode calls, the
\* number of set inode-bitmap bits in [RESERVED_INODES, MAX_NUM_INODES) is
\* (ino_count - RESERVED_INODES) - free_ino_count.
C1_InoCounterAgrees ==
    InoSetBits = (metadata.ino_count - RESERVED_INODES) - metadata.free_ino_count

\* C1 witness: inodes were allocated and one was freed again.
C1_Witness ==
    /\ ret.op = "free_inode" /\ ret.res = "Ok"
    /\ InoSetBits = 3
    /\ metadata.free_ino_count = 5

\* C2: on a fresh filesystem, after any alloc_blk / free_blk calls, the
\* number of set block-bitmap bits in [RESERVED_DATA_BLKS, NUM_DATA_BLKS) is
\* (blk_count - RESERVED_DATA_BLKS) - free_blk_count.
C2_BlkCounterAgrees ==
    BlkSetBits = (metadata.blk_count - RESERVED_DATA_BLKS) - metadata.free_blk_count

\* C2 witness: blocks were allocated and one was freed again.
C2_Witness ==
    /\ ret.op = "free_blk" /\ ret.res = "Ok"
    /\ BlkSetBits = 4
    /\ metadata.free_blk_count = NUM_DATA_BLKS - RESERVED_DATA_BLKS - 4

\* C3: an allocate/free call that returns an error leaves the bitmaps, the
\* free counters and the tables as they were, on any FSState.
C3_ErrorLeavesStateUnchanged ==
    [][IsErr(ret') => UNCHANGED <<metadata, inode_bitmap, inodes, blk_bitmap, blks>>]_vars

\* C4: a successful alloc_inode returns the lowest index of
\* [RESERVED_INODES, MAX_NUM_INODES) whose bit was clear before the call.
C4_FirstFit ==
    [][(ret'.op = "alloc_inode" /\ ret'.res = "Ok")
        => /\ InoRange \ inode_bitmap # {}
           /\ ret'.val = MinIdx(InoRange \ inode_bitmap)]_vars

\* C4 witness: id 3 was freed between two live inodes and handed out again.
C4_Witness ==
    /\ ret.op = "alloc_inode" /\ ret.res = "Ok" /\ ret.val = 3
    /\ {2, 3, 4} \subseteq inode_bitmap
    /\ 5 \notin inode_bitmap

\* C5: alloc_inode succeeds whenever an index of the range is free (so the
\* MAX_NUM_INODES - RESERVED_INODES calls on a fresh state all succeed);
\* with none free, free_ino_count is 0 and the call fails with
\* NoFreeInodesOnAlloc, changing neither bitmap, counter nor table.
C5_InodeExhaustion ==
    [][ret'.op = "alloc_inode"
        => IF InoRange \ inode_bitmap # {}
           THEN ret'.res = "Ok"
           ELSE /\ metadata.free_ino_count = 0
                /\ ret'.res = "NoFreeInodesOnAlloc"
                /\ InoPartUnchanged]_vars

\* C5 witness: the call after the last inode was handed out.
C5_Witness ==
    /\ ret.op = "alloc_inode" /\ ret.res = "NoFreeInodesOnAlloc"
    /\ InoSetBits = MAX_NUM_INODES - RESERVED_INODES
    /\ metadata.free_ino_count = 0
    /\ \A i \in InoRange : inodes[i] # NoInode

\* C6: the block bitmap has a bit for every index below NUM_DATA_BLKS: no
\* block call with an index below NUM_DATA_BLKS reads a bit outside the
\* storage, and alloc_blk fails only with NoFreeEntriesOnAlloc, and only
\* when NUM_DATA_BLKS - RESERVED_DATA_BLKS blocks are allocated and
\* free_blk_count is 0.
C6_BlkBitmapCapacity ==
    /\ (ret.op = "alloc_blk" \/ (ret.op = "free_blk" /\ ret.arg < NUM_DATA_BLKS))
          => ret.res # "Panic"
    /\ (ret.op = "alloc_blk" /\ ret.res # "Ok")
          => /\ ret.res = "NoFreeEntriesOnAlloc"
             /\ BlkSetBits = NUM_DATA_BLKS - RESERVED_DATA_BLKS
             /\ metadata.free_blk_count = 0

\* Every bit of the reserved prefix of both bitmaps is set.
ReservedSet ==
    /\ \A i \in 0..(RESERVED_INODES - 1) : Bit(inode_bitmap, i)
    /\ \A i \in 0..(RESERVED_DATA_BLKS - 1) : Bit(blk_bitmap, i)

\* C7: the reserved prefix of both bitmaps stays set, no allocation returns
\* a reserved id, and free_inode of a reserved id fails with InvalidInoId
\* and changes nothing.
C7_ReservedUntouchable ==
    /\ ReservedSet
    /\ [][/\ ReservedSet'
          /\ (ret'.op = "alloc_inode" /\ ret'.res = "Ok") => ret'.val >= RESERVED_INODES
          /\ (ret'.op = "alloc_blk" /\ ret'.res = "Ok") => ret'.val >= RESERVED_DATA_BLKS
          /\ (ret'.op = "free_inode" /\ ret'.arg < RESERVED_INODES)
                => /\ ret'.res = "InvalidInoId"
                   /\ UNCHANGED <<metadata, inode_bitmap, inodes, blk_bitmap, blks>>]_vars

\* C7 witness: free_inode(1) was refused with an inode and a block live.
C7_Witness ==
    /\ ret.op = "free_inode" /\ ret.arg = 1 /\ ret.res = "InvalidInoId"
    /\ InoSetBits > 0
    /\ BlkSetBits > 0

\* The direct bitmap calls, the [RESERVED, MAX) range of the bitmap a call
\* is made on, and that bitmap before and after the call.
FlipOps == {"ino.set_alloc", "ino.set_free", "blk.set_alloc", "blk.set_free"}
InRangeOf(op, idx) ==
    IF op \in {"ino.set_alloc", "ino.set_free"}
    THEN idx \in InoRange
    ELSE idx \in BlkRange
FlippedMap(op) ==
    IF op \in {"ino.set_alloc", "ino.set_free"} THEN inode_bitmap ELSE blk_bitmap
FlippedMapNext(op) ==
    IF op \in {"ino.set_alloc", "ino.set_free"} THEN inode_bitmap' ELSE blk_bitmap'

\* C8: on both bitmaps, set_alloc and set_free of an index below RESERVED or
\* at or above MAX return RestrictedEntry and change no bit.
C8_BitmapBounds ==
    [][(ret'.op \in FlipOps /\ ~InRangeOf(ret'.op, ret'.arg))
        => /\ ret'.res = "RestrictedEntry"
           /\ UNCHANGED <<inode_bitmap, blk_bitmap>>]_vars

\* C8 witness: set_alloc(MAX) was refused on an inode bitmap with bits set.
C8_Witness ==
    /\ ret.op = "ino.set_alloc" /\ ret.arg = MAX_NUM_INODES
    /\ ret.res = "RestrictedEntry"
    /\ InoSetBits > 0
    /\ BlkSetBits > 0

\* C9: for every idx in [RESERVED, MAX), set_alloc(idx) returns
\* AlreadyAlloced on a set bit and set_free(idx) returns AlreadyFree on a
\* clear bit, the bitmap unchanged; otherwise they succeed and flip exactly
\* bit idx.
C9_DoubleFlipCaught ==
    [][(ret'.op \in FlipOps /\ InRangeOf(ret'.op, ret'.arg))
        => LET op == ret'.op
               idx == ret'.arg
               was == Bit(FlippedMap(op), idx)
           IN  IF op \in {"ino.set_alloc", "blk.set_alloc"}
               THEN IF was
                    THEN ret'.res = "AlreadyAlloced" /\ UNCHANGED <<inode_bitmap, blk_bitmap>>
                    ELSE /\ ret'.res = "Ok"
                         /\ FlippedMapNext(op) = FlippedMap(op) \cup {idx}
               ELSE IF was
                    THEN /\ ret'.res = "Ok"
                         /\ FlippedMapNext(op) = FlippedMap(op) \ {idx}
                    ELSE ret'.res = "AlreadyFree" /\ UNCHANGED <<inode_bitmap, blk_bitmap>>]_vars

\* C10: free_inode of an id of [RESERVED_INODES, MAX_NUM_INODES) that is not
\* allocated returns BitmapError(AlreadyFree) and changes neither bitmap,
\* counter nor table; on an allocated id it succeeds and frees it.
C10_DoubleFreeRejected ==
    [][(ret'.op = "free_inode" /\ ret'.arg \in InoRange)
        => IF Bit(inode_bitmap, ret'.arg)
           THEN /\ ret'.res = "Ok"
                /\ ~Bit(inode_bitmap', ret'.arg)
                /\ inodes'[ret'.arg] = NoInode
           ELSE /\ ret'.res = "AlreadyFree"
                /\ InoPartUnchanged]_vars

\* C10 witness: the second free_inode of an id, with another inode live.
C10_Witness ==
    /\ ret.op = "free_inode" /\ ret.arg = 2 /\ ret.res = "AlreadyFree"
    /\ inode_bitmap \cap InoRange = {3}
    /\ inodes[2] = NoInode

\* C11: dec_free_ino_count at 0 returns InoCountBelowReserved and leaves the
\* counter alone, never wrapping or aborting; inc_free_ino_count at
\* ino_count - RESERVED_INODES returns InoCountExceedingMax and leaves it
\* alone; otherwise each moves the counter by exactly one, so the counter
\* stays in [0, ino_count - RESERVED_INODES].
C11_InoCounterBounds ==
    [][LET max == metadata.ino_count - RESERVED_INODES
       IN  /\ ret'.op = "dec_free_ino_count"
              => IF metadata.free_ino_count = 0
                 THEN ret'.res = "InoCountBelowReserved" /\ metadata' = metadata
                 ELSE /\ ret'.res = "Ok"
                      /\ metadata'.free_ino_count = metadata.free_ino_count - 1
           /\ ret'.op = "inc_free_ino_count"
              => IF metadata.free_ino_count = max
                 THEN ret'.res = "InoCountExceedingMax" /\ metadata' = metadata
                 ELSE metadata.free_ino_count \in 0..max
                      => /\ ret'.res = "Ok"
                         /\ metadata'.free_ino_count = metadata.free_ino_count + 1
           /\ metadata.free_ino_count \in 0..max
              => metadata'.free_ino_count \in 0..max]_vars

\* C12: dec_free_blk_count at 0 returns BlkCountBelowReserved and leaves the
\* counter alone; inc_free_blk_count at blk_count - RESERVED_DATA_BLKS
\* returns BlkCountExceedingMax and leaves it alone; otherwise each succeeds
\* and moves the counter by exactly one.
C12_BlkCounterBounds ==
    [][/\ ret'.op = "dec_free_blk_count"
          => IF metadata.free_blk_count = 0
             THEN ret'.res = "BlkCountBelowReserved" /\ metadata' = metadata
             ELSE /\ ret'.res = "Ok"
                  /\ metadata'.free_blk_count = metadata.free_blk_count - 1
       /\ ret'.op = "inc_free_blk_count"
          => IF metadata.free_blk_count = metadata.blk_count - RESERVED_DATA_BLKS
             THEN ret'.res = "BlkCountExceedingMax" /\ metadata' = metadata
             ELSE /\ ret'.res = "Ok"
                  /\ metadata'.free_blk_count = metadata.free_blk_count + 1
       /\ metadata'.free_blk_count \in 0..(metadata.blk_count - RESERVED_DATA_BLKS)]_vars

\* C12 witness: an increment refused at the top of the range.
C12_Witness ==
    /\ ret.op = "inc_free_blk_count" /\ ret.res = "BlkCountExceedingMax"
    /\ metadata.free_blk_count = metadata.blk_count - RESERVED_DATA_BLKS

\* C13: inode 1 is present on a fresh filesystem as the root directory
\* (kind Directory, permissions 0o755) and stays present through every
\* alloc_inode / free_inode; get_root_ino_ref succeeds and returns it.
C13_RootInodeExists ==
    /\ inodes[ROOT_INO] = create_root_ino
    /\ ret.op = "get_root_ino_ref" => (ret.res = "Ok" /\ ret.val = create_root_ino)

\* C14: get_ino_ref returns the inode of an occupied slot and InodeNotFound
\* for every other u32 id (an empty slot, or an id at or past the capacity
\* of the table); it never aborts and never changes the state.
C14_LookupTotal ==
    [][ret'.op \in {"get_ino_ref", "get_root_ino_ref"}
        => /\ UNCHANGED <<metadata, inode_bitmap, inodes, blk_bitmap, blks>>
           /\ IF ret'.arg \in DOMAIN inodes /\ inodes[ret'.arg].tag = "Some"
              THEN ret'.res = "Ok" /\ ret'.val = inodes[ret'.arg]
              ELSE ret'.res = "InodeNotFound"]_vars

\* C15: a successful alloc_inode(kind, perm) leaves in the slot of the id it
\* returns an inode with that id, the kind and permissions passed, size 0,
\* blocks 0 and all twelve direct and three indirect pointers at the
\* sentinel 0, whatever the slot held before.
C15_FreshInode ==
    [][\A kind \in Kinds, perm \in Perms :
          (alloc_inode(kind, perm) /\ ret'.res = "Ok")
          => LET ino == inodes'[ret'.val]
             IN  /\ ino.tag = "Some"
                 /\ ino.ino_id = ret'.val
                 /\ ino.kind = kind /\ ino.perm = perm
                 /\ ino.size = 0 /\ ino.blocks = 0
                 /\ DOMAIN ino.direct_blks = 1..12
                 /\ \A i \in 1..12 : ino.direct_blks[i] = 0
                 /\ ino.indirect_blk = 0
                 /\ ino.dbl_indirect_blk = 0
                 /\ ino.tri_indirect_blk = 0]_vars

\* C15 witness: id 2 was handed out, freed while inode 3 stayed live, and
\* handed out again, this time as a directory.
C15_Witness ==
    /\ ret.op = "alloc_inode" /\ ret.res = "Ok" /\ ret.val = 2
    /\ inodes[2].tag = "Some" /\ inodes[2].kind = "Directory"
    /\ inodes[3].tag = "Some" /\ inodes[3].kind = "RegularFile"

\* C16: a successful alloc_blk leaves an all-zero block in the slot of the
\* id it returns, whatever the slot held before (a block written and freed
\* earlier included); a successful free_blk leaves the slot empty.
C16_BlockSlots ==
    [][/\ (ret'.op = "alloc_blk" /\ ret'.res = "Ok")
          => /\ ret'.val \in DOMAIN blks'
             /\ blks'[ret'.val] = [fill |-> 0]
       /\ (ret'.op = "free_blk" /\ ret'.res = "Ok")
          => ret'.arg \notin DOMAIN blks']_vars

\* C16 witness: block 3 was handed out zeroed while block 4 holds written
\* data.
C16_Witness ==
    /\ ret.op = "alloc_blk" /\ ret.res = "Ok" /\ ret.val = RESERVED_DATA_BLKS
    /\ blks[RESERVED_DATA_BLKS] = ZeroBlock
    /\ RESERVED_DATA_BLKS + 1 \in DOMAIN blks
    /\ blks[RESERVED_DATA_BLKS + 1] = WrittenBlock

\* C17: after a successful free_inode(id), every block the inode pointed at
\* through a non-sentinel direct or indirect pointer is free as well: its
\* bit is clear and its slot is empty.
C17_FreeInodeReleasesBlocks ==
    [][(ret'.op = "free_inode" /\ ret'.res = "Ok"
            /\ ret'.arg \in DOMAIN inodes /\ inodes[ret'.arg].tag = "Some")
        => \A b \in BlksOf(inodes[ret'.arg]) :
              /\ ~Bit(blk_bitmap', b)
              /\ b \notin DOMAIN blks']_vars

\* C18: DirEntry::new fails with NameEmpty for a name of 0 bytes and with
\* NameTooLong for one of more than 255 bytes; for 1 to 255 bytes it
\* succeeds with name_len the exact byte length, and name_str() of the entry
\* gives back the original name, 255-byte names included.
C18_NameRoundTrip ==
    [][/\ ret'.op = "DirEntry::new"
          => LET name == ret'.arg.name
             IN  IF Len(name) = 0 THEN ret'.res = "NameEmpty"
                 ELSE IF Len(name) > 255 THEN ret'.res = "NameTooLong"
                 ELSE /\ ret'.res = "Ok"
                      /\ dent'.name_len = Len(name)
                      /\ name_str(dent') = [res |-> "Ok", val |-> name]
       /\ (ret'.op = "name_str" /\ ret.op = "DirEntry::new" /\ ret.res = "Ok")
          => ret'.res = "Ok" /\ ret'.val = ret.arg.name]_vars

\* C18 witness: name_str gave back a 255-byte name whose last character
\* takes two bytes.
C18_Witness ==
    /\ ret.op = "name_str" /\ ret.res = "Ok"
    /\ Len(ret.val) = 255
    /\ ret.val[254] = 195 /\ ret.val[255] = 169
    /\ dent.name_len = 255

\* C19: every entry DirEntry::new constructs has a non-zero ino_id and a
\* name_len with 0 < name_len <= 255.
C19_EntryWellFormed ==
    dent.tag = "Some" => (dent.ino_id # 0 /\ dent.name_len \in 1..255)

\* C20: set_entries with an array longer than DIR_SIZE_LEN is rejected with
\* NoEmptySlot and leaves the entries unchanged; with an array within
\* capacity it succeeds and the directory holds exactly the given entries.
C20_SetEntriesCapacity ==
    [][ret'.op = "set_entries"
        => IF Len(ret'.arg) > DIR_SIZE_LEN
           THEN ret'.res = "NoEmptySlot" /\ dir' = dir
           ELSE ret'.res = "Ok" /\ dir' = ret'.arg]_vars

\* The name of an entry: the first name_len bytes of its buffer.
EntryName(e) == SubSeq(e.name, 1, e.name_len)
Occupied(d) == {i \in 1..Len(d) : d[i].tag = "Some"}

\* C21: after any sequence of Directory operations (Directory::default,
\* new_dir_with_entries, set_entries, add_entry), no two occupied slots of
\* the directory hold entries with the same name.
C21_NamesUnique ==
    \A i, j \in Occupied(dir) : i # j => EntryName(dir[i]) # EntryName(dir[j])

\* C22: add_entry(e) on a directory with an empty slot places e in a slot
\* that was empty before the call and leaves every other slot unchanged, so
\* the number of occupied slots grows by exactly one.
C22_AddEntryInserts ==
    [][(ret'.op = "add_entry" /\ Occupied(dir) # 1..Len(dir))
        => /\ \E j \in (1..Len(dir)) \ Occupied(dir) :
                 dir' = [dir EXCEPT ![j] = ret'.arg]
           /\ Cardinality(Occupied(dir')) = Cardinality(Occupied(dir)) + 1]_vars

\* C29: after any sequence of Directory::default, new_dir_with_entries and
\* successful or failing set_entries / add_entry calls, a directory has
\* exactly DIR_SIZE_LEN slots (block size divided by entry record size),
\* every one of them empty right after Directory::default.
C29_SlotCountFixed ==
    /\ Len(dir) = BLK_SIZE_BYTES \div DirEntrySize
    /\ ret.op = "default" => \A i \in 1..Len(dir) : dir[i] = NoEntry

\* C23: with P pointers per block, logical block L of an inode resolves
\* through direct_blks[L] for L < 12, through the singly-indirect block for
\* 12 <= L < 12 + P, through the doubly-indirect block for
\* 12 + P <= L < 12 + P + P^2, through the triply-indirect block for
\* 12 + P + P^2 <= L < 12 + P + P^2 + P^3, and is an error for any larger L.
C23_TranslationBoundaries ==
    [][ret'.op = "translate"
        => LET L == ret'.arg
               P == 1024
               ino == inodes[2]
           IN  /\ L < 12
                  => ret'.res = "direct" /\ ret'.val.ptr = ino.direct_blks[L + 1]
               /\ (12 <= L /\ L < 12 + P)
                  => /\ ret'.res = "indirect"
                     /\ ret'.val.ptr = ino.indirect_blk
                     /\ ret'.val.off = L - 12
               /\ (12 + P <= L /\ L < 12 + P + P * P)
                  => ret'.res = "dbl_indirect" /\ ret'.val.ptr = ino.dbl_indirect_blk
               /\ (12 + P + P * P <= L /\ L < 12 + P + P * P + P * P * P)
                  => ret'.res = "tri_indirect" /\ ret'.val.ptr = ino.tri_indirect_blk
               /\ L >= 12 + P + P * P + P * P * P
                  => ret'.res = "error"]_vars

\* C23 witness: logical block 12 resolved through the singly-indirect block
\* of an inode whose indirect pointer is block 3.
C23_Witness ==
    /\ ret.op = "translate" /\ ret.arg = 12
    /\ ret.res = "indirect"
    /\ ret.val.ptr = 3 /\ ret.val.off = 0

\* The part of the frame of a successful alloc_inode / free_inode that is
\* outside the metadata: only bit id and slot id change.
InodeFrameTables(alloc, id) ==
    /\ inode_bitmap' \ {id} = inode_bitmap \ {id}
    /\ (id \in inode_bitmap') = alloc
    /\ (id \in inode_bitmap) = ~alloc
    /\ DOMAIN inodes' = DOMAIN inodes
    /\ \A i \in (DOMAIN inodes) \ {id} : inodes'[i] = inodes[i]
    /\ (inodes'[id].tag = "Some") = alloc
    /\ blk_bitmap' = blk_bitmap
    /\ blks' = blks
    /\ blks_len' = blks_len

\* C24 (as stated): a successful alloc_inode returning id, or a successful
\* free_inode(id), changes only inode-bitmap bit id, inode-table slot id and
\* free_ino_count (by exactly one); every other inode bit, every other
\* inode slot, the block bitmap, the block table, free_blk_count, ino_count
\* and blk_count, and with them every other field of the metadata, are
\* unchanged.
C24_InodeFrame ==
    [][(ret'.op \in {"alloc_inode", "free_inode"} /\ ret'.res = "Ok")
        => LET alloc == ret'.op = "alloc_inode"
               id == IF alloc THEN ret'.val ELSE ret'.arg
           IN  /\ InodeFrameTables(alloc, id)
               /\ metadata' = [metadata EXCEPT !.free_ino_count =
                                   @ + (IF alloc THEN 0 - 1 ELSE 1)]]_vars

\* C24 (amended): a successful alloc_inode returning id, or a successful
\* free_inode(id), changes only inode-bitmap bit id, inode-table slot id,
\* free_ino_count (by exactly one) and the metadata's mtime, which holds a
\* reading of the clock afterwards; every other inode bit, every other
\* inode slot, the block bitmap, the block table, free_blk_count, ino_count,
\* blk_count, super_blk_no and wtime are unchanged.
C24_InodeFrameMtime ==
    [][(ret'.op \in {"alloc_inode", "free_inode"} /\ ret'.res = "Ok")
        => LET alloc == ret'.op = "alloc_inode"
               id == IF alloc THEN ret'.val ELSE ret'.arg
           IN  /\ InodeFrameTables(alloc, id)
               /\ metadata'.mtime \in secs_from_unix_epoch
               /\ [metadata' EXCEPT !.mtime = 0]
                     = [metadata EXCEPT !.free_ino_count =
                                           @ + (IF alloc THEN 0 - 1 ELSE 1),
                                        !.mtime = 0]]_vars

\* C24 witness: inode 3 was freed between the live inodes 2 and 4 while two
\* blocks are allocated, and the call stamped mtime with a second other than
\* the 0 the metadata starts with.
C24_Witness ==
    /\ ret.op = "free_inode" /\ ret.res = "Ok" /\ ret.arg = 3
    /\ inodes[2].tag = "Some" /\ inodes[4].tag = "Some"
    /\ inodes[3] = NoInode
    /\ LiveBlks = 2
    /\ metadata.mtime = MaxClock
    /\ metadata.wtime = 0

\* C25: alloc_inode returns NoFreeInodesOnAlloc only when no index of
\* [RESERVED_INODES, MAX_NUM_INODES) is free; free_inode returns
\* InvalidInoId only for an id outside that range; alloc_blk and free_blk
\* return RestrictedEntry only for an index outside
\* [RESERVED_DATA_BLKS, NUM_DATA_BLKS).  A failing counter update is never
\* reported under one of these kinds.
C25_ErrorKindsDistinct ==
    [][/\ (ret'.op = "alloc_inode" /\ ret'.res = "NoFreeInodesOnAlloc")
          => InoRange \ inode_bitmap = {}
       /\ (ret'.op = "free_inode" /\ ret'.res = "InvalidInoId")
          => ret'.arg \notin InoRange
       /\ (ret'.op = "free_blk" /\ ret'.res = "RestrictedEntry")
          => ret'.arg \notin BlkRange
       /\ (ret'.op = "alloc_blk" /\ ret'.res = "RestrictedEntry")
          => LET ff == find_first_free(blk_bitmap, RESERVED_DATA_BLKS,
                                       NUM_DATA_BLKS, BlkBits)
             IN  ff.tag = "Some" /\ ff.idx \notin BlkRange]_vars

\* C26: in every state reached from a fresh FSState through alloc_inode,
\* free_inode, alloc_blk and free_blk, a table slot of the allocatable range
\* is occupied exactly when its bitmap bit is set, for inodes and blocks.
C26_BitmapTableAgree ==
    /\ \A i \in InoRange : (inodes[i].tag = "Some") = Bit(inode_bitmap, i)
    /\ DOMAIN blks = blk_bitmap \cap BlkRange

\* C26 witness: block 3 and inode 3 were freed below a live block and a
\* live inode.
C26_Witness ==
    /\ ret.op = "free_blk" /\ ret.res = "Ok" /\ ret.arg = 3
    /\ DOMAIN blks = {4}
    /\ inodes[2].tag = "Some" /\ inodes[3] = NoInode /\ inodes[4].tag = "Some"

\* C27: in every state reached from a fresh FSState through alloc_inode,
\* free_inode and read_ino_alloc, every occupied inode slot i holds an inode
\* whose ino_id is i, so get_ino_ref(i) never returns an inode with another
\* id.
C27_InoIdMatchesSlot ==
    /\ \A i \in DOMAIN inodes : inodes[i].tag = "Some" => inodes[i].ino_id = i
    /\ (ret.op = "get_ino_ref" /\ ret.res = "Ok") => ret.val.ino_id = ret.arg

\* C27 witness: a lookup returned the inode that read_ino_alloc loaded into
\* slot 3 while slot 2 holds an allocated one.
C27_Witness ==
    /\ ret.op = "get_ino_ref" /\ ret.res = "Ok" /\ ret.arg = 3
    /\ ret.val.kind = "Directory"
    /\ inodes[2].tag = "Some" /\ inodes[2].kind = "RegularFile"

\* C28: after a successful read_ino_alloc the bitmap bit of the loaded id is
\* set and free_ino_count accounts for it; the inode keeps its slot until
\* free_inode is called on its id, and no alloc_inode returns that id or
\* overwrites that slot.
C28_LoadedInodeKept ==
    [][/\ (ret'.op = "read_ino_alloc" /\ ret'.res = "Ok")
          => /\ Bit(inode_bitmap', ret'.val)
             /\ Cardinality(inode_bitmap' \cap InoRange)
                   = (metadata'.ino_count - RESERVED_INODES) - metadata'.free_ino_count
       /\ (ret'.op = "alloc_inode" /\ ret'.res = "Ok")
          => inodes[ret'.val] = NoInode
       /\ \A i \in DOMAIN inodes :
             (inodes[i].tag = "Some" /\ inodes'[i] # inodes[i])
             => (ret'.op = "free_inode" /\ ret'.arg = i)]_vars

====
